---- MODULE Spec2Model ----
(***************************************************************************)
(* Verification model of two kernels of the repository:                   *)
(*   - the fused multi-tensor Adam update                                  *)
(*     (paddle/phi/kernels/gpu/multi_tensor_adam_kernel.cu)                *)
(*   - the oneDNN matmul forward / gradient kernels (unnamed/part_000)     *)
(*                                                                         *)
(* Floating point values (type MT) are modelled as fixed-point integers    *)
(* with Unit standing for 1.0; the narrow storage type T is modelled by a  *)
(* quantising cast.                                                        *)
(***************************************************************************)
EXTENDS Integers, Sequences, FiniteSets, TLC

VARIABLES
    \* ---- host view of MultiTensorAdamKernel --------------------------------
    inplace,            \* outputs are bound to the same buffers as the inputs
    narrowT,            \* T is narrower than MT (float16 storage)
    attr,               \* operator attributes and scalar arguments
    grads,              \* grads[i][e]
    params_in, moments1_in, moments2_in, master_param_in,
    beta1_pow_in, beta2_pow_in,
    params_out, moments1_out, moments2_out, master_param_out,
    beta1_pow_out, beta2_pow_out,
    skip_update,        \* argument of the last call (optional tensor)
    status,             \* "none", "ok", "InvalidArgument"
    entry,              \* buffers as they were when the last call was entered
    orig,               \* inputs at the start of the current run of skipped calls
    streak,             \* length of the current run of skipped calls
    launched,           \* device kernels the last call has launched
    ncalls,
    \* ---- device view of one launch of CudaKernelFunctor -------------------
    tabi,               \* TensorAndBlockInf: sizes and the work-unit table
    compute_group_size,
    blockDim,           \* blockDim.x of the launch
    multi_precision,
    i_start,            \* i_start[<<block, thread>>]; Returned once the loop is left
    updates,            \* element updates done: [tensor, idx, block, thread, i_start, ii]
    accesses,           \* global memory accesses: [block, tensor, idx, buf, kind]
    \* ---- MatMulV2MKLDNNKernel::Compute -------------------------------------
    x_dims, y_dims,     \* effective dims of X and Y (GetDimForInput)
    fused_reshape_Out, fused_transpose_Out,
    head_number,        \* attribute head_number; NoAttr when absent
    out_dims,           \* out->dims()
    out_entry,          \* out->dims() when Compute was entered
    x_bd_dims, y_bd_dims,
    mm_status,          \* "none", "ok", "Unimplemented", "InvalidArgument", "BackendError"
    executed,           \* the backend multiply ran and wrote out
    \* ---- MatMulGradMKLDNNKernel::Compute ----------------------------------
    X, Y, dOut,         \* the caller's input tensors: [dims, data], data row-major
    dX, dY,             \* the caller's output tensors: [present, dims, data]
    transpose_X, transpose_Y,
    alpha,
    grad_head_number,   \* attribute head_number; NoAttr when absent
    grad_status,        \* "none", "ok", "Unimplemented", "BackendError",
                        \* "Segfault", "Undefined"
    dispatch,           \* the calls of ExecuteMatMulGrad, in order
    grad_entry,         \* the caller's tensors when Compute was entered
    \* ---- device stream of one call: CudaKernelFunctor, UpdateBetaPow ------
    pow_alias,          \* beta1_pow_out / beta2_pow_out are the input buffers
    pow_attr,           \* beta1, beta2
    dev_mem,            \* device memory holding the four beta_pow scalars
    pow_entry,          \* dev_mem when the call was entered
    stream,             \* kernels launched on dev_ctx.stream(), in launch order
    unit_pc,            \* position of each element-update work-unit
    unit_read,          \* beta1_pow / beta2_pow as each work-unit has read them
    upd_pc,             \* position of each thread of UpdateBetaPow
    upd_reg,            \* the value each thread of UpdateBetaPow has loaded
    \* ---- forward Compute with fused_reshape_X/Y, fused_transpose_X/Y ------
    in_dims,            \* ctx.Input(name)->dims() of X and Y
    fused_reshape,      \* attributes fused_reshape_X, fused_reshape_Y
    fused_transpose,    \* attributes fused_transpose_X, fused_transpose_Y
    trans_attr,         \* attributes trans_x, trans_y
    strides_override    \* results of GetInputStrides: [present, data]

adamVars == <<inplace, narrowT, attr, grads,
              params_in, moments1_in, moments2_in, master_param_in,
              beta1_pow_in, beta2_pow_in,
              params_out, moments1_out, moments2_out, master_param_out,
              beta1_pow_out, beta2_pow_out,
              skip_update, status, entry, orig, streak, launched, ncalls>>

devVars == <<tabi, compute_group_size, blockDim, multi_precision,
             i_start, updates, accesses>>

mmVars == <<x_dims, y_dims, fused_reshape_Out, fused_transpose_Out, head_number,
            out_dims, out_entry, x_bd_dims, y_bd_dims, mm_status, executed>>

gradVars == <<X, Y, dOut, dX, dY, transpose_X, transpose_Y, alpha,
              grad_head_number, grad_status, dispatch, grad_entry>>

betaVars == <<pow_alias, pow_attr, dev_mem, pow_entry, stream,
              unit_pc, unit_read, upd_pc, upd_reg>>
fuseVars == <<in_dims, fused_reshape, fused_transpose, trans_attr, strides_override>>
vars == <<adamVars, devVars, mmVars, gradVars, betaVars, fuseVars>>

----------------------------------------------------------------------------
\* Bounds of the model
Unit == 8               \* fixed-point representation of 1.0
NumTensors == 2         \* length of the tensor lists
MaxSize == 3            \* largest element count of a tensor
MaxCalls == 3           \* calls of the kernel in one behaviour
MaxSkipNumel == 2       \* largest element count of skip_update
MaxDevSize == 10        \* largest element count of a tensor in a launch
MaxGroup == 9           \* largest compute_group_size of a launch
MaxBlockDim == 2        \* largest blockDim.x of a launch
MaxThreads == 6         \* largest number of threads of a launch
MaxRank == 4            \* largest rank of X and Y
MaxDim == 3             \* largest batch dimension of X and Y
MaxBatch == 2           \* largest batch size of X and Y in a matmul_grad call
MaxMat == 3             \* largest M, K and N in a matmul_grad call
MaxUnits == 2           \* element-update work-units of a launch on the stream
MaxPowThreads == 3      \* threads of UpdateBetaPow whose steps interleave

\* Program constants
PARALLEL_SIZE == 4

----------------------------------------------------------------------------
\* Arithmetic in MT

FMul(a, b) == (a * b) \div Unit
FDiv(a, b) == (a * Unit) \div b
ISqrt(n) == CHOOSE r \in 0..n : r * r <= n /\ (r + 1) * (r + 1) > n
FSqrt(a) == ISqrt(a * Unit)

\* static_cast<T>(MT): exact when T = MT, rounds to the coarser grid otherwise
CastT(x, narrow) == IF narrow THEN 2 * (x \div 2) ELSE x

----------------------------------------------------------------------------
\* Adam element update, CudaKernelFunctor::operator() second unrolled loop

AdamElemNoDecay(p, g, m, v, a, b1p, b2p) ==
    LET m1 == FMul(a.beta1, m) + FMul(Unit - a.beta1, g)
        v1 == FMul(a.beta2, v) + FMul(FMul(Unit - a.beta2, g), g)
        denom == FDiv(FSqrt(v1), FSqrt(Unit - b2p)) + a.epsilon
    IN  [p |-> p + FMul(FDiv(m1, denom), -(FDiv(a.lr, Unit - b1p))),
         m |-> m1, v |-> v1]

AdamElemScaleByLr(p, g, m, v, a, b1p, b2p) ==
    IF a.mode = FALSE
    THEN AdamElemNoDecay(p, g, m, v, a, b1p, b2p)
    ELSE AdamElemNoDecay(FMul(p, Unit - a.lr), g, m, v, a, b1p, b2p)

AdamElem(p, g, m, v, a, b1p, b2p) ==
    IF a.mode = FALSE
    THEN LET m1 == FMul(a.beta1, m) + FMul(Unit - a.beta1, g)
             v1 == FMul(a.beta2, v) + FMul(FMul(Unit - a.beta2, g), g)
             denom == FDiv(FSqrt(v1), FSqrt(Unit - b2p)) + a.epsilon
         IN  [p |-> p + FMul(FDiv(m1, denom), -(FDiv(a.lr, Unit - b1p))),
              m |-> m1, v |-> v1]
    ELSE LET p0 == FMul(p, Unit - FMul(a.lr, a.weight_decay))
             m1 == FMul(a.beta1, m) + FMul(Unit - a.beta1, g)
             v1 == FMul(a.beta2, v) + FMul(FMul(Unit - a.beta2, g), g)
             denom == FDiv(FSqrt(v1), FSqrt(Unit - b2p)) + a.epsilon
         IN  [p |-> p0 + FMul(FDiv(m1, denom), -(FDiv(a.lr, Unit - b1p))),
              m |-> m1, v |-> v1]

\* One slot of the functor: guarded load, update, guarded store of element i
\* of the buffers P, M1, M2, MP (tensors_addr[0..3][tensor_id]) and G (grad).
SlotUpdate(P, M1, M2, MP, G, i, a, narrow, b1p, b2p) ==
    LET r_g == G[i]
        r_p == IF a.multi_precision THEN MP[i] ELSE P[i]
        r == AdamElem(r_p, r_g, M1[i], M2[i], a, b1p, b2p)
    IN  [p |-> CastT(r.p, narrow), m |-> r.m, v |-> r.v,
         mp |-> IF a.multi_precision THEN r.p ELSE MP[i]]

\* multi_tensor_adam_utility: the launch of the functor over the work-unit
\* table; every element of every tensor is handled by one slot.
multi_tensor_adam_utility(P, M1, M2, MP, G, a, narrow, b1p, b2p) ==
    LET S(t, e) == SlotUpdate(P[t], M1[t], M2[t], MP[t], G[t], e, a, narrow, b1p, b2p)
    IN  [params_out |-> [t \in DOMAIN P |-> [e \in DOMAIN P[t] |-> S(t, e).p]],
         moments1_out |-> [t \in DOMAIN P |-> [e \in DOMAIN P[t] |-> S(t, e).m]],
         moments2_out |-> [t \in DOMAIN P |-> [e \in DOMAIN P[t] |-> S(t, e).v]],
         master_param_out |-> [t \in DOMAIN P |-> [e \in DOMAIN P[t] |-> S(t, e).mp]]]

\* *beta_pow_out = beta * beta_pow_[0], as one thread computes it
UpdateBetaPow(beta, beta_pow_) == FMul(beta, beta_pow_)

\* blockDim of the launch of UpdateBetaPow
UpdateBetaPowThreads == 32

\* What the output holds when the n threads of UpdateBetaPow have returned and
\* it is the buffer they load from: a thread stores beta * (the value it
\* loaded), and it loads the value at entry or one another thread has stored
RECURSIVE UpdateBetaPowInPlace(_, _, _)
UpdateBetaPowInPlace(beta, beta_pow_, n) ==
    IF n = 0 THEN {}
    ELSE {UpdateBetaPow(beta, beta_pow_)} \cup
         UpdateBetaPowInPlace(beta, UpdateBetaPow(beta, beta_pow_), n - 1)

\* What the threads of UpdateBetaPow can leave in an output buffer
UpdateBetaPowLaunch(beta, beta_pow_) ==
    IF inplace
    THEN UpdateBetaPowInPlace(beta, beta_pow_, UpdateBetaPowThreads)
    ELSE {UpdateBetaPow(beta, beta_pow_)}

----------------------------------------------------------------------------
\* Host side: MultiTensorAdamKernel

\* The input tensors as the kernel sees them
params == IF inplace THEN params_out ELSE params_in
moments1 == IF inplace THEN moments1_out ELSE moments1_in
moments2 == IF inplace THEN moments2_out ELSE moments2_in
master_param == IF inplace THEN master_param_out ELSE master_param_in
beta1_pow == IF inplace THEN beta1_pow_out ELSE beta1_pow_in
beta2_pow == IF inplace THEN beta2_pow_out ELSE beta2_pow_in

Outputs == [params_out |-> params_out, moments1_out |-> moments1_out,
            moments2_out |-> moments2_out, master_param_out |-> master_param_out,
            beta1_pow_out |-> beta1_pow_out, beta2_pow_out |-> beta2_pow_out]

Inputs == [params |-> params, moments1 |-> moments1, moments2 |-> moments2,
           master_param |-> master_param,
           beta1_pow |-> beta1_pow, beta2_pow |-> beta2_pow]

\* paddle::optional<DenseTensor> skip_update: absent, or a tensor of booleans
Absent == [present |-> FALSE, data |-> <<>>]
SkipUpdateValues ==
    {Absent} \cup
    {[present |-> TRUE, data |-> d] :
        d \in UNION {[1..n -> BOOLEAN] : n \in 0..MaxSkipNumel}}

NumelCheckLax(su) == ~su.present \/ Len(su.data) >= 1

\* PADDLE_ENFORCE_EQ(skip_update->numel(), 1, ...)
NumelCheck(su) == ~su.present \/ Len(su.data) = 1

SkipFlagAbsentSkips(su) == IF ~su.present THEN TRUE ELSE su.data[1]

\* skip_update_ as resolved at entry
SkipFlag(su) == IF ~su.present THEN FALSE ELSE su.data[1]

SkipPathNoMoment2 ==
    [params_out |-> params, moments1_out |-> moments1,
     moments2_out |-> moments2_out, master_param_out |-> master_param_out,
     beta1_pow_out |-> beta1_pow, beta2_pow_out |-> beta2_pow_out]

\* if (skip_update_) { phi::Copy ... ; return; }
SkipPath ==
    [params_out |-> params, moments1_out |-> moments1,
     moments2_out |-> moments2, master_param_out |-> master_param_out,
     beta1_pow_out |-> beta1_pow, beta2_pow_out |-> beta2_pow]

FinalizeBetaPowAlways ==
    [beta1_pow_out : UpdateBetaPowLaunch(attr.beta1, beta1_pow),
     beta2_pow_out : UpdateBetaPowLaunch(attr.beta2, beta2_pow)]

\* if (!use_global_beta_pow) UpdateBetaPow<<<1, 32>>>(...): the contents the
\* launch can leave in beta1_pow_out and beta2_pow_out
FinalizeBetaPow ==
    IF ~attr.use_global_beta_pow
    THEN [beta1_pow_out : UpdateBetaPowLaunch(attr.beta1, beta1_pow),
          beta2_pow_out : UpdateBetaPowLaunch(attr.beta2, beta2_pow)]
    ELSE {[beta1_pow_out |-> beta1_pow_out, beta2_pow_out |-> beta2_pow_out]}

\* tensor_and_block_inf = {params_out, moments1_out, moments2_out
\* [, master_param_out]}; launch; beta-pow finalization
NonSkipPath(fin) ==
    LET r == multi_tensor_adam_utility(params_out, moments1_out, moments2_out,
                                       master_param_out, grads, attr, narrowT,
                                       beta1_pow, beta2_pow)
    IN  [params_out |-> r.params_out, moments1_out |-> r.moments1_out,
         moments2_out |-> r.moments2_out, master_param_out |-> r.master_param_out,
         beta1_pow_out |-> fin.beta1_pow_out,
         beta2_pow_out |-> fin.beta2_pow_out]

SetOutputs(o) ==
    /\ params_out' = o.params_out
    /\ moments1_out' = o.moments1_out
    /\ moments2_out' = o.moments2_out
    /\ master_param_out' = o.master_param_out
    /\ beta1_pow_out' = o.beta1_pow_out
    /\ beta2_pow_out' = o.beta2_pow_out

MultiTensorAdamKernel(su) ==
    /\ ncalls < MaxCalls
    /\ ncalls' = ncalls + 1
    /\ skip_update' = su
    /\ entry' = [in |-> Inputs, out |-> Outputs]
    /\ UNCHANGED <<inplace, narrowT, attr, grads, params_in, moments1_in,
                   moments2_in, master_param_in, beta1_pow_in, beta2_pow_in>>
    /\ IF ~NumelCheck(su)
       THEN /\ status' = "InvalidArgument"
            /\ launched' = {}
            /\ streak' = 0
            /\ orig' = Inputs
            /\ SetOutputs(Outputs)
       ELSE IF SkipFlag(su)
       THEN /\ status' = "ok"
            /\ launched' = {}
            /\ streak' = streak + 1
            /\ orig' = IF streak = 0 THEN Inputs ELSE orig
            /\ SetOutputs(SkipPath)
       ELSE /\ status' = "ok"
            /\ launched' = {"CudaKernelFunctor"} \cup
                           (IF ~attr.use_global_beta_pow THEN {"UpdateBetaPow"} ELSE {})
            /\ streak' = 0
            /\ orig' = Inputs
            /\ \E fin \in FinalizeBetaPow : SetOutputs(NonSkipPath(fin))

\* No launch is being observed
DevIdle ==
    /\ tabi = <<>>
    /\ compute_group_size = 0
    /\ blockDim = 0
    /\ multi_precision = FALSE
    /\ i_start = <<>>
    /\ updates = {}
    /\ accesses = {}

\* No matmul call is being observed
NoAttr == -1
MatMulIdle ==
    /\ x_dims = <<>> /\ y_dims = <<>>
    /\ fused_reshape_Out = <<>> /\ fused_transpose_Out = <<>>
    /\ head_number = NoAttr
    /\ out_dims = <<>> /\ out_entry = <<>>
    /\ x_bd_dims = <<>> /\ y_bd_dims = <<>>
    /\ mm_status = "none" /\ executed = FALSE

\* No matmul_grad call is being observed
NoTensor == [dims |-> <<>>, data |-> <<>>]
NoOutput == [present |-> FALSE, dims |-> <<>>, data |-> <<>>]
GradIdle ==
    /\ X = NoTensor /\ Y = NoTensor /\ dOut = NoTensor
    /\ dX = NoOutput /\ dY = NoOutput
    /\ transpose_X = FALSE /\ transpose_Y = FALSE
    /\ alpha = 1
    /\ grad_head_number = NoAttr
    /\ grad_status = "none"
    /\ dispatch = <<>>
    /\ grad_entry = <<>>

\* No device stream is being observed
BetaIdle ==
    /\ pow_alias = FALSE
    /\ pow_attr = <<>>
    /\ dev_mem = <<>>
    /\ pow_entry = <<>>
    /\ stream = <<>>
    /\ unit_pc = <<>> /\ unit_read = <<>>
    /\ upd_pc = <<>> /\ upd_reg = <<>>

\* The forward call has no fused_reshape_X/Y and fused_transpose_X/Y: the
\* effective dims x_dims and y_dims are the dims of the inputs
FuseIdle ==
    /\ in_dims = <<>>
    /\ fused_reshape = <<>>
    /\ fused_transpose = <<>>
    /\ trans_attr = <<>>
    /\ strides_override = <<>>

----------------------------------------------------------------------------
\* Initial data of the tensor lists

TensorIds == 1..NumTensors
SizeOf(t, seed) == 1 + ((t + seed) % MaxSize)
\* Distinct values per role, tensor and element; params are representable in T
ElemValue(role, t, e, seed) ==
    CASE role = "params" -> 2 * (Unit + t + e)
      [] role = "grads" -> t + e + seed - 3
      [] role = "moments1" -> t + e - 2
      [] role = "moments2" -> e + seed
      [] role = "master_param" -> 2 * (Unit + t + e) + 1
      [] OTHER -> 2 * e
Tensor(seed, role) ==
    [t \in TensorIds |-> [e \in 1..SizeOf(t, seed) |-> ElemValue(role, t, e, seed)]]

AttrValues ==
    [mode : BOOLEAN, multi_precision : BOOLEAN, use_global_beta_pow : BOOLEAN,
     weight_decay : {0, Unit \div 2},
     beta1 : {Unit \div 2}, beta2 : {(3 * Unit) \div 4},
     epsilon : {1}, lr : {Unit \div 2}]

InitAdam ==
    /\ inplace \in BOOLEAN
    /\ narrowT \in BOOLEAN
    /\ attr \in AttrValues
    /\ \E seed \in 0..1 :
        /\ grads = Tensor(seed, "grads")
        /\ params_in = Tensor(seed, "params")
        /\ moments1_in = Tensor(seed, "moments1")
        /\ moments2_in = Tensor(seed, "moments2")
        /\ master_param_in = Tensor(seed, "master_param")
        /\ params_out = Tensor(seed, IF inplace THEN "params" ELSE "stale")
        /\ moments1_out = Tensor(seed, IF inplace THEN "moments1" ELSE "stale")
        /\ moments2_out = Tensor(seed, IF inplace THEN "moments2" ELSE "stale")
        /\ master_param_out = Tensor(seed, IF inplace THEN "master_param" ELSE "stale")
    /\ beta1_pow_in = attr.beta1
    /\ beta2_pow_in = attr.beta2
    /\ beta1_pow_out = IF inplace THEN attr.beta1 ELSE 0
    /\ beta2_pow_out = IF inplace THEN attr.beta2 ELSE 0
    /\ skip_update = Absent
    /\ status = "none"
    /\ entry = [in |-> Inputs, out |-> Outputs]
    /\ orig = Inputs
    /\ streak = 0
    /\ launched = {}
    /\ ncalls = 0
    /\ DevIdle
    /\ MatMulIdle
    /\ GradIdle
    /\ BetaIdle
    /\ FuseIdle

NextAdam ==
    \E su \in SkipUpdateValues :
        MultiTensorAdamKernel(su) /\ UNCHANGED <<devVars, mmVars, gradVars, betaVars, fuseVars>>

SpecAdam == InitAdam /\ [][NextAdam]_vars

----------------------------------------------------------------------------
\* Properties of the host side (SpecAdam)

\* skip_update is present, has one element and that element is true
SkipRequested ==
    skip_update.present /\ Len(skip_update.data) = 1 /\ skip_update.data[1]

\* The update the last call has to produce from the buffers P, M1, M2, MP
ExpectedUpdate(P, M1, M2, MP, a) ==
    multi_tensor_adam_utility(P, M1, M2, MP, grads, a, narrowT,
                              entry.in.beta1_pow, entry.in.beta2_pow)

\* C1: in a run of one or more consecutive calls with skip_update = [true],
\* params_out, moments1_out, moments2_out, beta1_pow_out and beta2_pow_out are
\* exact copies of the inputs as they were when the run started, and the
\* inputs themselves are still what they were.
C1_SkipUpdateCopiesInputs ==
    streak >= 1 =>
        /\ params_out = orig.params
        /\ moments1_out = orig.moments1
        /\ moments2_out = orig.moments2
        /\ beta1_pow_out = orig.beta1_pow
        /\ beta2_pow_out = orig.beta2_pow
        /\ Inputs = orig

C1_Witness ==
    /\ streak >= 2
    /\ ~inplace
    /\ entry.out.params_out = params_in
    /\ params_out = params_in
    /\ beta2_pow_out = beta2_pow_in

\* C2: whenever use_global_beta_pow is false, a call that returns
\* leaves beta1_pow_out = beta1 * beta1_pow and beta2_pow_out = beta2 * beta2_pow
\* (beta_pow as at entry).
C2_Original ==
    (status = "ok" /\ ~attr.use_global_beta_pow) =>
        /\ beta1_pow_out = FMul(attr.beta1, entry.in.beta1_pow)
        /\ beta2_pow_out = FMul(attr.beta2, entry.in.beta2_pow)

\* C3 (as stated): when use_global_beta_pow is true no call writes
\* beta1_pow_out or beta2_pow_out.
C3_Original ==
    (attr.use_global_beta_pow /\ ncalls >= 1) =>
        /\ beta1_pow_out = entry.out.beta1_pow_out
        /\ beta2_pow_out = entry.out.beta2_pow_out

\* C3 (amended): when use_global_beta_pow is true and skip_update does not
\* resolve to true, the call leaves beta1_pow_out and beta2_pow_out exactly as
\* they were before it.
C3_GlobalBetaPowUntouched ==
    (attr.use_global_beta_pow /\ ncalls >= 1 /\ ~SkipRequested) =>
        /\ beta1_pow_out = entry.out.beta1_pow_out
        /\ beta2_pow_out = entry.out.beta2_pow_out

C3_Witness ==
    /\ attr.use_global_beta_pow
    /\ status = "ok"
    /\ ~SkipRequested
    /\ params_out # entry.out.params_out
    /\ beta1_pow_out = entry.out.beta1_pow_out
    /\ FMul(attr.beta1, entry.in.beta1_pow) # entry.out.beta1_pow_out

\* C4 (as stated): on the non-skip path params_out, moments1_out and
\* moments2_out are the Adam step applied to the input tensors params
\* (master_param when multi_precision), moments1, moments2 and grads, whatever
\* the output buffers held before the call.
C4_UpdateReadsInputs ==
    (status = "ok" /\ ~SkipRequested) =>
        LET exp == ExpectedUpdate(entry.in.params, entry.in.moments1,
                                  entry.in.moments2, entry.in.master_param, attr)
        IN  /\ params_out = exp.params_out
            /\ moments1_out = exp.moments1_out
            /\ moments2_out = exp.moments2_out

\* C7: with weight_decay = 0 the update with mode = true (decoupled decay)
\* and the update with mode = false (plain) give the same p, m and v for every
\* element: what the call produced equals what the other mode produces from
\* the same buffers.
C7_ZeroDecayModesAgree ==
    (status = "ok" /\ ~SkipRequested /\ attr.weight_decay = 0) =>
        LET exp == ExpectedUpdate(entry.out.params_out, entry.out.moments1_out,
                                  entry.out.moments2_out, entry.out.master_param_out,
                                  [attr EXCEPT !.mode = ~attr.mode])
        IN  /\ params_out = exp.params_out
            /\ moments1_out = exp.moments1_out
            /\ moments2_out = exp.moments2_out
            /\ attr.multi_precision => master_param_out = exp.master_param_out

C7_Witness ==
    /\ status = "ok"
    /\ ~SkipRequested
    /\ attr.weight_decay = 0
    /\ attr.mode
    /\ params_out # entry.out.params_out
    /\ moments1_out # entry.out.moments1_out

\* C8: a call whose skip_update is present with an element count other than 1
\* ends with InvalidArgument, with no output written and no kernel launched;
\* a call without skip_update performs the update, as with skip_update = [false].
C8_SkipUpdateNumelChecked ==
    /\ (ncalls >= 1 /\ skip_update.present /\ Len(skip_update.data) # 1) =>
          /\ status = "InvalidArgument"
          /\ Outputs = entry.out
          /\ launched = {}
    /\ (ncalls >= 1 /\ ~(skip_update.present /\ Len(skip_update.data) # 1)) =>
          status = "ok"
    /\ (ncalls >= 1 /\ ~skip_update.present) =>
          LET exp == ExpectedUpdate(entry.out.params_out, entry.out.moments1_out,
                                    entry.out.moments2_out,
                                    entry.out.master_param_out, attr)
          IN  /\ "CudaKernelFunctor" \in launched
              /\ params_out = exp.params_out
              /\ moments1_out = exp.moments1_out
              /\ moments2_out = exp.moments2_out
              /\ attr.use_global_beta_pow => beta1_pow_out = entry.out.beta1_pow_out
              /\ ~attr.use_global_beta_pow => "UpdateBetaPow" \in launched

C8_Witness ==
    /\ status = "InvalidArgument"
    /\ skip_update.present
    /\ Len(skip_update.data) = 2
    /\ skip_update.data[1]
    /\ ~inplace
    /\ params_out # params_in
    /\ ncalls >= 2

----------------------------------------------------------------------------
\* Device side: one launch of CudaKernelFunctor over the work-unit table.
\* Tensors, blocks, threads and element indices count from 0 as in the source.

Returned == -1

NumChunks(n, cgs) == (n + cgs - 1) \div cgs

\* Number of work-units of the tensors before tensor t
ChunksBefore(sizes, cgs, t) ==
    LET cb[u \in 0..t] ==
            IF u = 0 THEN 0 ELSE cb[u - 1] + NumChunks(sizes[u - 1], cgs)
    IN  cb[t]

NumBlocks(sizes, cgs) == ChunksBefore(sizes, cgs, Cardinality(DOMAIN sizes))

\* The table multi_tensor_adam_utility fills in: one work-unit per
\* (tensor, chunk) pair, in tensor order
MakeTable(sizes, cgs) ==
    LET owner(b) == CHOOSE t \in DOMAIN sizes :
                        /\ ChunksBefore(sizes, cgs, t) <= b
                        /\ b < ChunksBefore(sizes, cgs, t + 1)
    IN  [sizes |-> sizes,
         tenosr_for_this_block |->
            [b \in 0..(NumBlocks(sizes, cgs) - 1) |-> owner(b)],
         compute_group_for_this_block |->
            [b \in 0..(NumBlocks(sizes, cgs) - 1) |->
                b - ChunksBefore(sizes, cgs, owner(b))],
         start_compute_group_this_tensor |-> 0]

Blocks == DOMAIN tabi.tenosr_for_this_block
Threads == Blocks \X (0..(blockDim - 1))

\* int tensor_id = tabi.tenosr_for_this_block[blockIdx.x]
tensor_id(b) == tabi.tenosr_for_this_block[b]

\* int compute_group_idx = tabi.compute_group_for_this_block[blockIdx.x] + ...
compute_group_idx(b) ==
    tabi.compute_group_for_this_block[b] + tabi.start_compute_group_this_tensor

\* n = tabi.sizes[tensor_id]; n -= compute_group_idx * compute_group_size
RemainingN(b) ==
    tabi.sizes[tensor_id(b)] - compute_group_idx(b) * compute_group_size

\* i_start < n && i_start < compute_group_size
LoopCond(b, is) == is < RemainingN(b) /\ is < compute_group_size

LoopStrideBlockOnly == blockDim

\* i_start += blockDim.x * PARALLEL_SIZE
LoopStride == blockDim * PARALLEL_SIZE

\* int i = i_start + threadIdx.x + ii * blockDim.x
SlotIndex(is, tid, ii) == is + tid + ii * blockDim

SlotActiveNoLength(b, i) == i < compute_group_size

\* if (i < n && i < compute_group_size)
SlotActive(b, i) == i < RemainingN(b) /\ i < compute_group_size

\* g += compute_group_idx * compute_group_size; ... g[i]
FlatIndex(b, i) == compute_group_idx(b) * compute_group_size + i

\* Buffers a slot loads from and stores to
SlotAccesses ==
    {<<"g", "read">>, <<"m", "read">>, <<"v", "read">>,
     <<"p", "write">>, <<"m", "write">>, <<"v", "write">>}
    \cup (IF multi_precision
          THEN {<<"mp", "read">>, <<"mp", "write">>}
          ELSE {<<"p", "read">>})

\* One pass of the for loop of thread tid of block b
ThreadIteration(b, tid) ==
    LET is == i_start[<<b, tid>>]
        active == {ii \in 0..(PARALLEL_SIZE - 1) :
                      SlotActive(b, SlotIndex(is, tid, ii))}
    IN  /\ is # Returned
        /\ LoopCond(b, is)
        /\ updates' = updates \cup
              {[tensor |-> tensor_id(b), idx |-> FlatIndex(b, SlotIndex(is, tid, ii)),
                block |-> b, thread |-> tid, i_start |-> is, ii |-> ii] :
                  ii \in active}
        /\ accesses' = accesses \cup
              {[block |-> b, tensor |-> tensor_id(b),
                idx |-> FlatIndex(b, SlotIndex(is, tid, x[1])),
                buf |-> x[2][1], kind |-> x[2][2]] :
                  x \in active \X SlotAccesses}
        /\ i_start' = [i_start EXCEPT ![<<b, tid>>] = is + LoopStride]
        /\ UNCHANGED <<tabi, compute_group_size, blockDim, multi_precision>>

\* The loop condition fails: the thread leaves the functor
ThreadReturn(b, tid) ==
    /\ i_start[<<b, tid>>] # Returned
    /\ ~LoopCond(b, i_start[<<b, tid>>])
    /\ i_start' = [i_start EXCEPT ![<<b, tid>>] = Returned]
    /\ UNCHANGED <<tabi, compute_group_size, blockDim, multi_precision,
                   updates, accesses>>

AllReturned == \A th \in Threads : i_start[th] = Returned

\* Tensor sizes of the launches explored
DevSizeLists ==
    {[t \in 0..1 |-> IF t = 0 THEN MaxDevSize ELSE 2],
     [t \in 0..1 |-> IF t = 0 THEN 3 ELSE MaxDevSize - 1]}

\* The host side is not observed
AdamIdle ==
    /\ inplace = FALSE /\ narrowT = FALSE /\ attr = <<>> /\ grads = <<>>
    /\ params_in = <<>> /\ moments1_in = <<>> /\ moments2_in = <<>>
    /\ master_param_in = <<>> /\ beta1_pow_in = 0 /\ beta2_pow_in = 0
    /\ params_out = <<>> /\ moments1_out = <<>> /\ moments2_out = <<>>
    /\ master_param_out = <<>> /\ beta1_pow_out = 0 /\ beta2_pow_out = 0
    /\ skip_update = Absent /\ status = "none" /\ entry = <<>> /\ orig = <<>>
    /\ streak = 0 /\ launched = {} /\ ncalls = 0

InitDevice ==
    /\ AdamIdle
    /\ MatMulIdle
    /\ GradIdle
    /\ BetaIdle
    /\ FuseIdle
    /\ \E sizes \in DevSizeLists, cgs \in 1..MaxGroup, bd \in 1..MaxBlockDim :
        /\ NumBlocks(sizes, cgs) * bd <= MaxThreads
        /\ tabi = MakeTable(sizes, cgs)
        /\ compute_group_size = cgs
        /\ blockDim = bd
        /\ i_start = [th \in (0..(NumBlocks(sizes, cgs) - 1)) \X (0..(bd - 1)) |-> 0]
    /\ multi_precision \in BOOLEAN
    /\ updates = {}
    /\ accesses = {}

DeviceIterate ==
    \E th \in Threads : ThreadIteration(th[1], th[2]) /\ UNCHANGED <<adamVars, mmVars, gradVars, betaVars, fuseVars>>

DeviceReturn ==
    \E th \in Threads : ThreadReturn(th[1], th[2]) /\ UNCHANGED <<adamVars, mmVars, gradVars, betaVars, fuseVars>>

NextDevice == DeviceIterate \/ DeviceReturn

SpecDevice == InitDevice /\ [][NextDevice]_vars

----------------------------------------------------------------------------
\* Properties of the device side (SpecDevice)

Elements == {te \in (DOMAIN tabi.sizes) \X (0..(MaxDevSize + 1)) :
                te[2] < tabi.sizes[te[1]]}

UpdatesOf(t, e) == {u \in updates : u.tensor = t /\ u.idx = e}

\* C5: no element is updated by more than one (work-unit, thread, iteration,
\* slot), every update is of an element of its tensor, and once every thread
\* has returned every element of every tensor has been updated exactly once.
C5_EveryElementOnce ==
    /\ \A u \in updates :
          /\ <<u.tensor, u.idx>> \in Elements
          /\ UpdatesOf(u.tensor, u.idx) = {u}
    /\ AllReturned =>
          \A te \in Elements : Cardinality(UpdatesOf(te[1], te[2])) = 1

\* a launch with more than one loop pass, a compute_group_size that is not a
\* multiple of blockDim.x * PARALLEL_SIZE and a partial last chunk
C5_Witness ==
    /\ AllReturned
    /\ compute_group_size % (blockDim * PARALLEL_SIZE) # 0
    /\ \E t \in DOMAIN tabi.sizes : tabi.sizes[t] % compute_group_size # 0
    /\ blockDim > 1
    /\ \E u \in updates : u.i_start > 0
    /\ \E u \in updates : u.thread > 0 /\ u.ii > 0
    /\ Cardinality(updates) = Cardinality(Elements)

\* C6: every load and store of a work-unit is at an index below the element
\* count of its tensor and inside the work-unit's own chunk.
C6_AccessesInBounds ==
    \A a \in accesses :
        /\ a.tensor = tensor_id(a.block)
        /\ 0 <= a.idx
        /\ a.idx < tabi.sizes[a.tensor]
        /\ tabi.compute_group_for_this_block[a.block] * compute_group_size <= a.idx
        /\ a.idx < (tabi.compute_group_for_this_block[a.block] + 1) * compute_group_size

\* a work-unit with a partial final chunk has run, with a slot that lies past
\* the tensor's length but inside the compute group
C6_Witness ==
    /\ AllReturned
    /\ multi_precision
    /\ \E b \in Blocks :
          /\ RemainingN(b) < compute_group_size
          /\ \E tid \in 0..(blockDim - 1), ii \in 0..(PARALLEL_SIZE - 1) :
                /\ SlotIndex(0, tid, ii) >= RemainingN(b)
                /\ SlotIndex(0, tid, ii) < compute_group_size
          /\ \E a \in accesses : a.block = b /\ a.buf = "mp" /\ a.kind = "write"

----------------------------------------------------------------------------
\* MatMulV2MKLDNNKernel::Compute (forward).  Sequences count from 1: position
\* k of the source is position k + 1 here.

Max(a, b) == IF a >= b THEN a ELSE b

Ones(n) == [i \in 1..n |-> 1]

\* int ndims = std::max(x_dims.size(), y_dims.size()); ndims = std::max(ndims, 3)
NDims(xd, yd) == Max(Max(Len(xd), Len(yd)), 3)

\* CalculateMatrixDims, placement of x_dims in x_bd_dims
XBdDims(xd, nd) ==
    IF Len(xd) = 1 THEN [Ones(nd) EXCEPT ![nd] = xd[1]]
    ELSE IF Len(xd) = 2 THEN [Ones(nd) EXCEPT ![nd] = xd[2], ![nd - 1] = xd[1]]
    ELSE [i \in 1..nd |-> IF i > nd - Len(xd) THEN xd[i - (nd - Len(xd))] ELSE 1]

\* CalculateMatrixDims, placement of y_dims in y_bd_dims
YBdDims(yd, nd) ==
    IF Len(yd) = 1 THEN [Ones(nd) EXCEPT ![nd - 1] = yd[1]]
    ELSE IF Len(yd) = 2 THEN [Ones(nd) EXCEPT ![nd] = yd[2], ![nd - 1] = yd[1]]
    ELSE [i \in 1..nd |-> IF i > nd - Len(yd) THEN yd[i - (nd - Len(yd))] ELSE 1]

IsOutputFused == fused_reshape_Out # <<>> /\ fused_transpose_Out # <<>>

\* the condition of the PADDLE_ENFORCE_EQ in the loop over the batch positions
BroadcastOk(a, b) == a = b \/ a = 1 \/ b = 1

OutBatchDimFromX(a, b) == a

\* (out_dims)[i] = std::max((*x_bd_dims)[i], (*y_bd_dims)[i])
OutBatchDim(a, b) == Max(a, b)

\* if (!IsOutputFused(ctx) && x_dims.size() > 2 && y_dims.size() > 2)
ResizeGuard(xd, yd) == ~IsOutputFused /\ Len(xd) > 2 /\ Len(yd) > 2

\* Result of CalculateMatrixDims: the error it raises, if any, and out's dims
CalculateMatrixDims(xd, yd, xbd, ybd, od) ==
    IF ResizeGuard(xd, yd)
    THEN IF \E i \in 1..(Len(xbd) - 2) : ~BroadcastOk(xbd[i], ybd[i])
         THEN [err |-> TRUE, out |-> od]
         ELSE [err |-> FALSE,
               out |-> [i \in 1..Len(od) |->
                          IF i <= Len(xbd) - 2
                          THEN OutBatchDim(xbd[i], ybd[i]) ELSE od[i]]]
    ELSE [err |-> FALSE, out |-> od]

\* Outcomes of ExecuteMatMulV2.  MatMulV2MKLDNNHandler builds the primitive
\* from x_bd_dims and y_bd_dims; with batch dims that do not broadcast, the
\* backend either rejects the descriptors or runs.
ExecuteMatMulV2(xbd, ybd) ==
    IF \A i \in 1..(Len(xbd) - 2) : BroadcastOk(xbd[i], ybd[i])
    THEN {"ok"}
    ELSE {"ok", "BackendError"}

Compute ==
    /\ mm_status = "none"
    /\ out_entry' = out_dims
    /\ UNCHANGED <<x_dims, y_dims, fused_reshape_Out, fused_transpose_Out, head_number>>
    /\ IF head_number # NoAttr /\ head_number # 1
       THEN /\ mm_status' = "Unimplemented"
            /\ UNCHANGED <<out_dims, x_bd_dims, y_bd_dims, executed>>
       ELSE LET nd == NDims(x_dims, y_dims)
                xbd == XBdDims(x_dims, nd)
                ybd == YBdDims(y_dims, nd)
                r == CalculateMatrixDims(x_dims, y_dims, xbd, ybd, out_dims)
            IN  /\ x_bd_dims' = xbd
                /\ y_bd_dims' = ybd
                /\ out_dims' = r.out
                /\ IF r.err
                   THEN /\ mm_status' = "InvalidArgument"
                        /\ executed' = FALSE
                   ELSE \E res \in ExecuteMatMulV2(xbd, ybd) :
                        /\ mm_status' = res
                        /\ executed' = (res = "ok")

\* Shapes of the operands: batch dims from 1..MaxDim, X = [.., 3, 4], Y = [.., 4, 5]
OperandDims(mat) ==
    {<<mat[Len(mat)]>>, mat} \cup
    UNION {{b \o mat : b \in [1..n -> 1..MaxDim]} : n \in 1..(MaxRank - 2)}

TakeLast(sq, n) == SubSeq(sq, Len(sq) - n + 1, Len(sq))

\* Shapes out can be declared with before Compute runs: the batch dims are
\* those of X, those of Y or their maximum, followed by the matrix dims
DeclaredOutDims(xd, yd) ==
    LET nd == NDims(xd, yd)
        xbd == XBdDims(xd, nd)
        ybd == YBdDims(yd, nd)
        mat == (IF Len(xd) > 1 THEN <<xbd[nd - 1]>> ELSE <<>>) \o
               (IF Len(yd) > 1 THEN <<ybd[nd]>> ELSE <<>>)
        nb == Max(Len(xd), Len(yd)) - 2
        mx == [i \in 1..(nd - 2) |-> Max(xbd[i], ybd[i])]
    IN  IF Len(xd) > 2 /\ Len(yd) > 2
        THEN {SubSeq(xbd, 1, nd - 2) \o mat, SubSeq(ybd, 1, nd - 2) \o mat, mx \o mat}
        ELSE IF nb > 0 THEN {TakeLast(mx, nb) \o mat}
        ELSE {mat}

InitMatMul ==
    /\ AdamIdle
    /\ DevIdle
    /\ GradIdle
    /\ BetaIdle
    /\ FuseIdle
    /\ x_dims \in OperandDims(<<3, 4>>)
    /\ y_dims \in OperandDims(<<4, 5>>)
    /\ fused_reshape_Out \in {<<>>, <<0, 0>>}
    /\ fused_transpose_Out \in {<<>>, <<1, 0>>}
    /\ head_number \in {NoAttr, 1, 2}
    /\ out_dims \in DeclaredOutDims(x_dims, y_dims)
    /\ out_entry = out_dims
    /\ x_bd_dims = <<>>
    /\ y_bd_dims = <<>>
    /\ mm_status = "none"
    /\ executed = FALSE

NextMatMul == Compute /\ UNCHANGED <<adamVars, devVars, gradVars, betaVars, fuseVars>>

SpecMatMul == InitMatMul /\ [][NextMatMul]_vars

----------------------------------------------------------------------------
\* Properties of the forward matmul (SpecMatMul)

BatchPositions == 1..(Len(x_bd_dims) - 2)

\* C9 (as stated): a forward call in which X and Y differ at some batch
\* position of the broadcast dimension vectors, neither being 1, fails with a
\* shape-mismatch error (InvalidArgument), leaves out's dims alone and runs no
\* backend multiply.
C9_MismatchRejected ==
    (/\ mm_status \notin {"none", "Unimplemented"}
     /\ \E i \in BatchPositions :
           /\ x_bd_dims[i] # y_bd_dims[i]
           /\ x_bd_dims[i] # 1
           /\ y_bd_dims[i] # 1)
    => /\ mm_status = "InvalidArgument"
       /\ out_dims = out_entry
       /\ ~executed

\* Batch dims of out: its dims without the matrix dims (one per operand of
\* rank 2 or more), right-aligned and padded with 1 on the left
OutBatch ==
    LET k == (IF Len(x_dims) > 1 THEN 1 ELSE 0) + (IF Len(y_dims) > 1 THEN 1 ELSE 0)
        nb == Len(out_dims) - k
        pad == Len(x_bd_dims) - 2 - nb
    IN  [i \in BatchPositions |-> IF i > pad THEN out_dims[i - pad] ELSE 1]

----------------------------------------------------------------------------
\* MatMulGradMKLDNNKernel (gradient).  A tensor is [dims, data]: data is its
\* buffer in row-major order.  Offsets count from 0, positions of data from 1.

RECURSIVE Numel(_)
Numel(d) == IF d = <<>> THEN 1 ELSE d[1] * Numel(Tail(d))

\* a vector X is a row, a vector Y is a column
RowMatrixDimsFromVector(x_dim) ==
    IF Len(x_dim) > 1 THEN x_dim ELSE <<1, x_dim[1]>>

ColumnMatrixDimsFromVector(y_dim) ==
    IF Len(y_dim) > 1 THEN y_dim ELSE <<y_dim[1], 1>>

\* Matrix descriptor of a shape and a transpose flag: logical height and
\* width, batch_size the product of the dims before the last two (0 for rank 2)
CreateMatrixDescriptor(tensor_dim, trans) ==
    LET n == Len(tensor_dim)
        h == tensor_dim[n - 1]
        w == tensor_dim[n]
    IN  [batch_size_ |-> IF n = 2 THEN 0 ELSE Numel(SubSeq(tensor_dim, 1, n - 2)),
         height_ |-> IF trans THEN w ELSE h,
         width_ |-> IF trans THEN h ELSE w,
         trans_ |-> trans]

\* dims x is resized to: [BatchSize, H, W] or [H, W], H and W swapped back
\* if transposed
ReshapeTensorToMatrixSequence(descriptor) ==
    LET h == IF descriptor.trans_ THEN descriptor.width_ ELSE descriptor.height_
        w == IF descriptor.trans_ THEN descriptor.height_ ELSE descriptor.width_
    IN  IF descriptor.batch_size_ # 0
        THEN <<descriptor.batch_size_, h, w>>
        ELSE <<h, w>>

\* dims of x, y and out after ReshapeXYOutToMatrixSequence(&x, &y, &out, ..)
ReshapeXYOutToMatrixSequence(xd, yd, trans_x, trans_y) ==
    LET mat_dim_x == CreateMatrixDescriptor(RowMatrixDimsFromVector(xd), trans_x)
        mat_dim_y == CreateMatrixDescriptor(ColumnMatrixDimsFromVector(yd), trans_y)
    IN  [out |-> IF mat_dim_x.batch_size_ = 0 /\ mat_dim_y.batch_size_ = 0
                 THEN <<mat_dim_x.height_, mat_dim_y.width_>>
                 ELSE <<Max(mat_dim_x.batch_size_, mat_dim_y.batch_size_),
                        mat_dim_x.height_, mat_dim_y.width_>>,
         x |-> ReshapeTensorToMatrixSequence(mat_dim_x),
         y |-> ReshapeTensorToMatrixSequence(mat_dim_y)]

\* P x M x N to (P * M) x N on the same buffer
FoldOuterDims(input) ==
    IF Len(input.dims) = 3
    THEN [input EXCEPT !.dims = <<input.dims[1] * input.dims[2], input.dims[3]>>]
    ELSE input

\* strides of a rank-3 memory descriptor of the given dims and format tag:
\* the tag lists the dims from the outermost to the innermost
FormatStrides(dims, tag) ==
    IF tag = "abc"
    THEN <<dims[2] * dims[3], dims[3], 1>>
    ELSE <<dims[3], dims[1] * dims[3], 1>>

Indices3(dims) == (0..(dims[1] - 1)) \X (0..(dims[2] - 1)) \X (0..(dims[3] - 1))

Offset(idx, strides) ==
    idx[1] * strides[1] + idx[2] * strides[2] + idx[3] * strides[3]

\* reorder_p->execute: the element at a logical index of the source memory is
\* copied to the same logical index of the destination memory; both memories
\* are described with the dims the handler was constructed with
Reorder(dims, src_tag, dst_tag, src) ==
    [o \in 1..Numel(dims) |->
        LET idx == CHOOSE i \in Indices3(dims) :
                       Offset(i, FormatStrides(dims, dst_tag)) = o - 1
        IN  src[Offset(idx, FormatStrides(dims, src_tag)) + 1]]

\* P x M x N to M x (P * N) through a reorder into a new buffer
FoldFirstAndLastDims(input) ==
    IF Len(input.dims) # 3
    THEN input
    ELSE LET input_dims == input.dims
             output_dims == <<input_dims[2], input_dims[1], input_dims[3]>>
         IN  [dims |-> <<input_dims[2], input_dims[1] * input_dims[3]>>,
              data |-> Reorder(output_dims, "abc", "bac", input.data)]

\* The memory descriptors the constructor of MatMulMKLDNNHandler builds
MatMulMKLDNNHandler(x_dims_, trans_x, y_dims_, trans_y) ==
    LET mat_dim_x == CreateMatrixDescriptor(x_dims_, trans_x)
        mat_dim_y == CreateMatrixDescriptor(y_dims_, trans_y)
        x_bs == mat_dim_x.batch_size_
        y_bs == mat_dim_y.batch_size_
        out_bs == IF x_bs # 0 \/ y_bs # 0 THEN Max(x_bs, y_bs) ELSE 1
        M == mat_dim_x.height_
        N == mat_dim_y.width_
        K == mat_dim_x.width_
    IN  [x_dims |-> <<IF x_bs > 0 THEN x_bs ELSE 1, M, K>>,
         y_dims |-> <<IF y_bs > 0 THEN y_bs ELSE 1, K, N>>,
         out_dims |-> <<out_bs, M, N>>,
         x_strides |-> IF ~trans_x THEN <<M * K, K, 1>> ELSE <<M * K, 1, M>>,
         y_strides |-> IF ~trans_y THEN <<N * K, N, 1>> ELSE <<N * K, 1, K>>,
         out_strides |-> <<M * N, N, 1>>]

\* matmul_p->execute: dst[b][m][n] = scale * sum over k of
\* src[b][m][k] * weights[b][k][n], each read through its descriptor's
\* strides; a batch dim of 1 is broadcast
MatMulExecute(h, src, weights, scale) ==
    LET M == h.out_dims[2]
        N == h.out_dims[3]
        K == h.x_dims[3]
    IN  [o \in 1..Numel(h.out_dims) |->
            LET b == (o - 1) \div (M * N)
                m == ((o - 1) % (M * N)) \div N
                n == (o - 1) % N
                xb == IF h.x_dims[1] = 1 THEN 0 ELSE b
                yb == IF h.y_dims[1] = 1 THEN 0 ELSE b
                acc[k \in 0..K] ==
                    IF k = 0 THEN 0
                    ELSE acc[k - 1] +
                         src[Offset(<<xb, m, k - 1>>, h.x_strides) + 1] *
                         weights[Offset(<<yb, k - 1, n>>, h.y_strides) + 1]
            IN  scale * acc[K]]

\* What one call of ExecuteMatMulGrad does with a non-null out: the folds,
\* the handler's descriptors and the buffer of out after the execute.  out's
\* buffer holds Numel(out.dims) elements (AcquireDstMemory allocates by the
\* tensor's own size); the primitive writes Numel(out_dims) elements.
ExecuteMatMulGrad(x, trans_x, is_fold_init_dims_x, y, trans_y, is_fold_init_dims_y, out, scale) ==
    LET need_combine == (Len(x.dims) = 3 \/ Len(y.dims) = 3) /\ Len(out.dims) = 2
        x_combined == IF ~need_combine THEN x
                      ELSE IF is_fold_init_dims_x THEN FoldOuterDims(x)
                      ELSE FoldFirstAndLastDims(x)
        y_combined == IF ~need_combine THEN y
                      ELSE IF is_fold_init_dims_y THEN FoldOuterDims(y)
                      ELSE FoldFirstAndLastDims(y)
        handler == MatMulMKLDNNHandler(x_combined.dims, trans_x,
                                       y_combined.dims, trans_y)
        dst == MatMulExecute(handler, x_combined.data, y_combined.data, scale)
        capacity == Numel(out.dims)
    IN  [need_combine |-> need_combine,
         x_combined |-> x_combined,
         y_combined |-> y_combined,
         out_dims |-> handler.out_dims,
         capacity |-> capacity,
         data |-> [i \in 1..capacity |-> IF i <= Len(dst) THEN dst[i] ELSE out.data[i]]]

\* How a call of ExecuteMatMulGrad ends.  A null out is dereferenced
\* (out->dims(), out->mutable_data): undefined behaviour.  A primitive that
\* writes more elements than out's buffer holds overruns the buffer:
\* undefined behaviour, and if the call survives it, reshaping the
\* destination descriptor to out's dims throws, as it does whenever the
\* element counts differ.
CallOutcomes(out, r) ==
    IF ~out.present THEN {"Segfault", "Undefined"}
    ELSE IF Numel(r.out_dims) > r.capacity THEN {"Segfault", "BackendError"}
    ELSE IF Numel(r.out_dims) # r.capacity THEN {"BackendError"}
    ELSE {"ok"}

GradCasesDyAsStated(transpose_x, transpose_y) ==
    IF transpose_x /\ transpose_y
    THEN [dx |-> <<"y", TRUE, TRUE, "dout", TRUE, FALSE>>,
          dy |-> <<"dout", TRUE, TRUE, "x", TRUE, FALSE>>]
    ELSE IF transpose_x
    THEN [dx |-> <<"y", FALSE, FALSE, "dout", TRUE, FALSE>>,
          dy |-> <<"x", FALSE, FALSE, "dout", FALSE, TRUE>>]
    ELSE IF transpose_y
    THEN [dx |-> <<"dout", FALSE, FALSE, "y", FALSE, TRUE>>,
          dy |-> <<"x", TRUE, TRUE, "dout", FALSE, TRUE>>]
    ELSE [dx |-> <<"dout", FALSE, FALSE, "y", TRUE, FALSE>>,
          dy |-> <<"x", TRUE, TRUE, "dout", FALSE, TRUE>>]

GradCasesDxSwapped(transpose_x, transpose_y) ==
    IF transpose_x /\ transpose_y
    THEN [dx |-> <<"y", TRUE, TRUE, "dout", TRUE, FALSE>>,
          dy |-> <<"dout", TRUE, TRUE, "x", TRUE, FALSE>>]
    ELSE IF transpose_x
    THEN [dx |-> <<"dout", TRUE, FALSE, "y", FALSE, FALSE>>,
          dy |-> <<"x", FALSE, FALSE, "dout", FALSE, TRUE>>]
    ELSE IF transpose_y
    THEN [dx |-> <<"dout", FALSE, FALSE, "y", FALSE, TRUE>>,
          dy |-> <<"dout", TRUE, TRUE, "x", FALSE, TRUE>>]
    ELSE [dx |-> <<"dout", FALSE, FALSE, "y", TRUE, FALSE>>,
          dy |-> <<"x", TRUE, TRUE, "dout", FALSE, TRUE>>]

\* The arguments of the two calls of ExecuteMatMulGrad in each of the four
\* cases: <<x, trans_x, is_fold_init_dims_x, y, trans_y, is_fold_init_dims_y>>
GradCases(transpose_x, transpose_y) ==
    IF transpose_x /\ transpose_y
    THEN [dx |-> <<"y", TRUE, TRUE, "dout", TRUE, FALSE>>,
          dy |-> <<"dout", TRUE, TRUE, "x", TRUE, FALSE>>]
    ELSE IF transpose_x
    THEN [dx |-> <<"y", FALSE, FALSE, "dout", TRUE, FALSE>>,
          dy |-> <<"x", FALSE, FALSE, "dout", FALSE, TRUE>>]
    ELSE IF transpose_y
    THEN [dx |-> <<"dout", FALSE, FALSE, "y", FALSE, TRUE>>,
          dy |-> <<"dout", TRUE, TRUE, "x", FALSE, TRUE>>]
    ELSE [dx |-> <<"dout", FALSE, FALSE, "y", TRUE, FALSE>>,
          dy |-> <<"x", TRUE, TRUE, "dout", FALSE, TRUE>>]

HeadNumberCheckAbsentFails(hn) == hn = 1

\* if (ctx.HasAttr("head_number")) PADDLE_ENFORCE_EQ(head_number, 1, ...)
HeadNumberCheck(hn) == hn = NoAttr \/ hn = 1

\* if (dx) { dx_dims = dx->dims(); if (dx_dims != x.dims()) dx->Resize(x.dims()); }
ResizeForCompute(out, dims) ==
    IF out.present /\ out.dims # dims THEN [out EXCEPT !.dims = dims] ELSE out

RestoreDimsNever(out, out_dims_, dims) == out

\* if (dx) { if (dx_dims != x.dims()) { dx->Resize(dx_dims); ... } }
RestoreDims(out, out_dims_, dims) ==
    IF out.present /\ out_dims_ # dims THEN [out EXCEPT !.dims = out_dims_] ELSE out

\* One record per call of ExecuteMatMulGrad
DispatchRecord(target, args, out, r) ==
    [target |-> target, x |-> args[1], trans_x |-> args[2],
     is_fold_init_dims_x |-> args[3], y |-> args[4], trans_y |-> args[5],
     is_fold_init_dims_y |-> args[6],
     out_present |-> out.present,
     need_combine |-> r.need_combine,
     x_combined |-> r.x_combined, y_combined |-> r.y_combined,
     out_dims |-> r.out_dims,          \* {out_bs, M, N} of the handler
     target_dims |-> out.dims]         \* out->dims() during the call

\* MatMulGradMKLDNNKernel::Compute
GradCompute ==
    /\ grad_status = "none"
    /\ X # NoTensor
    /\ grad_entry' = [X |-> X, Y |-> Y, dOut |-> dOut, dX |-> dX, dY |-> dY]
    /\ UNCHANGED <<X, Y, dOut, transpose_X, transpose_Y, alpha, grad_head_number>>
    /\ IF ~HeadNumberCheck(grad_head_number)
       THEN /\ grad_status' = "Unimplemented"
            /\ UNCHANGED <<dX, dY, dispatch>>
       ELSE LET seq == ReshapeXYOutToMatrixSequence(X.dims, Y.dims,
                                                    transpose_X, transpose_Y)
                x == [X EXCEPT !.dims = seq.x]
                y == [Y EXCEPT !.dims = seq.y]
                dout == [dOut EXCEPT !.dims = seq.out]
                dx == ResizeForCompute(dX, x.dims)
                dy == ResizeForCompute(dY, y.dims)
                case == GradCases(transpose_X, transpose_Y)
                opnd(name) == IF name = "x" THEN x
                              ELSE IF name = "y" THEN y ELSE dout
                rx == ExecuteMatMulGrad(opnd(case.dx[1]), case.dx[2], case.dx[3],
                                        opnd(case.dx[4]), case.dx[5], case.dx[6],
                                        dx, alpha)
                ry == ExecuteMatMulGrad(opnd(case.dy[1]), case.dy[2], case.dy[3],
                                        opnd(case.dy[4]), case.dy[5], case.dy[6],
                                        dy, alpha)
                recx == DispatchRecord("dx", case.dx, dx, rx)
                recy == DispatchRecord("dy", case.dy, dy, ry)
            IN  \E ox \in CallOutcomes(dx, rx) :
                IF ox # "ok"
                THEN /\ grad_status' = ox
                     /\ dispatch' = <<recx>>
                     /\ dX' = IF dx.present THEN [dx EXCEPT !.data = rx.data] ELSE dx
                     /\ dY' = dy
                ELSE \E oy \in CallOutcomes(dy, ry) :
                     /\ grad_status' = oy
                     /\ dispatch' = <<recx, recy>>
                     /\ IF oy # "ok"
                        THEN /\ dX' = [dx EXCEPT !.data = rx.data]
                             /\ dY' = IF dy.present THEN [dy EXCEPT !.data = ry.data]
                                      ELSE dy
                        ELSE /\ dX' = RestoreDims([dx EXCEPT !.data = rx.data],
                                                  dX.dims, x.dims)
                             /\ dY' = RestoreDims([dy EXCEPT !.data = ry.data],
                                                  dY.dims, y.dims)

\* Values of the tensors' elements: no two of them equal, none of them 0
TensorData(n, role) ==
    [i \in 1..n |-> IF role = "X" THEN i
                    ELSE IF role = "Y" THEN 2 * i + 1 ELSE i * i + 2]

\* Shapes of a valid call: X of rank 1 to 3 with matrix M x K (K x M if
\* transposed), Y with K x N (N x K), batch sizes that broadcast; a vector
\* X is a row of K, a vector Y a column of K, neither transposed
GradShapes ==
    {sh \in [rx : 1..3, ry : 1..3, bx : 1..MaxBatch, by : 1..MaxBatch,
             M : 1..MaxMat, K : 1..MaxMat, N : 1..MaxMat,
             tx : BOOLEAN, ty : BOOLEAN] :
        /\ (sh.rx < 3 => sh.bx = 1) /\ (sh.ry < 3 => sh.by = 1)
        /\ BroadcastOk(sh.bx, sh.by)
        /\ (sh.rx = 1 => (~sh.tx /\ sh.M = 1))
        /\ (sh.ry = 1 => (~sh.ty /\ sh.N = 1))}

XDimsOf(sh) ==
    IF sh.rx = 1 THEN <<sh.K>>
    ELSE (IF sh.rx = 3 THEN <<sh.bx>> ELSE <<>>) \o
         (IF sh.tx THEN <<sh.K, sh.M>> ELSE <<sh.M, sh.K>>)

YDimsOf(sh) ==
    IF sh.ry = 1 THEN <<sh.K>>
    ELSE (IF sh.ry = 3 THEN <<sh.by>> ELSE <<>>) \o
         (IF sh.ty THEN <<sh.N, sh.K>> ELSE <<sh.K, sh.N>>)

\* dims of Out, and of dOut: the batch size if an operand has one, then M
\* unless X is a vector, then N unless Y is a vector
OutDimsOf(sh) ==
    LET d == (IF sh.rx = 3 \/ sh.ry = 3 THEN <<Max(sh.bx, sh.by)>> ELSE <<>>) \o
             (IF sh.rx > 1 THEN <<sh.M>> ELSE <<>>) \o
             (IF sh.ry > 1 THEN <<sh.N>> ELSE <<>>)
    IN  IF d = <<>> THEN <<1>> ELSE d

GradOutput(present, dims) ==
    [present |-> present,
     dims |-> IF present THEN dims ELSE <<>>,
     data |-> IF present THEN [i \in 1..Numel(dims) |-> 0] ELSE <<>>]

InitGradCall ==
    \E sh \in GradShapes, px \in BOOLEAN, py \in BOOLEAN :
        /\ px \/ py
        /\ X = [dims |-> XDimsOf(sh), data |-> TensorData(Numel(XDimsOf(sh)), "X")]
        /\ Y = [dims |-> YDimsOf(sh), data |-> TensorData(Numel(YDimsOf(sh)), "Y")]
        /\ dOut = [dims |-> OutDimsOf(sh),
                   data |-> TensorData(Numel(OutDimsOf(sh)), "dOut")]
        /\ dX = GradOutput(px, XDimsOf(sh))
        /\ dY = GradOutput(py, YDimsOf(sh))
        /\ transpose_X = sh.tx
        /\ transpose_Y = sh.ty
        /\ alpha \in 1..2
        /\ grad_head_number \in {NoAttr, 1, 2}
        /\ grad_status = "none"
        /\ dispatch = <<>>
        /\ grad_entry = <<>>

InitGrad ==
    /\ AdamIdle
    /\ DevIdle
    /\ MatMulIdle
    /\ BetaIdle
    /\ FuseIdle
    /\ InitGradCall

NextGrad == GradCompute /\ UNCHANGED <<adamVars, devVars, mmVars, betaVars, fuseVars>>

SpecGrad == InitGrad /\ [][NextGrad]_vars

\* Calls of either kernel: a forward call or a gradient call is observed
InitMatMulOps == InitMatMul \/ InitGrad

ForwardCall == x_dims # <<>> /\ NextMatMul

GradCall == NextGrad

NextMatMulOps == ForwardCall \/ GradCall

SpecMatMulOps == InitMatMulOps /\ [][NextMatMulOps]_vars

----------------------------------------------------------------------------
\* Properties of the gradient kernel

\* C11: in the forward and in the gradient kernel, a head_number attribute
\* that is present and not 1 makes the call fail with Unimplemented before an
\* input is read and before an output is resized or written; with the
\* attribute absent or 1 the check passes.
C11_HeadNumberRejected ==
    /\ (mm_status # "none" /\ head_number # NoAttr /\ head_number # 1) =>
          /\ mm_status = "Unimplemented"
          /\ out_dims = out_entry
          /\ x_bd_dims = <<>> /\ y_bd_dims = <<>>
          /\ ~executed
    /\ (mm_status # "none" /\ (head_number = NoAttr \/ head_number = 1)) =>
          mm_status # "Unimplemented"
    /\ (grad_status # "none" /\ grad_head_number # NoAttr /\ grad_head_number # 1) =>
          /\ grad_status = "Unimplemented"
          /\ dispatch = <<>>
          /\ dX = grad_entry.dX /\ dY = grad_entry.dY
    /\ (grad_status # "none" /\ (grad_head_number = NoAttr \/ grad_head_number = 1)) =>
          /\ grad_status # "Unimplemented"
          /\ dispatch # <<>>

\* a gradient call with head_number 2 was rejected although dX would have
\* had to be resized for the computation
C11_Witness ==
    /\ grad_status = "Unimplemented"
    /\ grad_head_number = 2
    /\ dX.present
    /\ Len(X.dims) = 1

\* Element [b][r][c] of a matrix sequence t of dims [B, R, C] or [R, C]
\* (row-major); a sequence of one matrix is broadcast over b
MatAt(t, b, r, c) ==
    LET n == Len(t.dims)
        R == t.dims[n - 1]
        C == t.dims[n]
        bb == IF n = 3 /\ t.dims[1] > 1 THEN b ELSE 0
    IN  t.data[bb * R * C + r * C + c + 1]

\* Element [b][i][j] of t, logically transposed if trans
OpAt(t, trans, b, i, j) == IF trans THEN MatAt(t, b, j, i) ELSE MatAt(t, b, i, j)

BatchOf(t) == IF Len(t.dims) = 3 THEN t.dims[1] ELSE 1
RowsOf(t, trans) == IF trans THEN t.dims[Len(t.dims)] ELSE t.dims[Len(t.dims) - 1]
ColsOf(t, trans) == IF trans THEN t.dims[Len(t.dims) - 1] ELSE t.dims[Len(t.dims)]

\* The batched product scale * op(a) * op(b) in row-major order
Product(a, trans_a, b, trans_b, scale) ==
    LET nb == Max(BatchOf(a), BatchOf(b))
        R == RowsOf(a, trans_a)
        I == ColsOf(a, trans_a)
        C == ColsOf(b, trans_b)
    IN  [o \in 1..(nb * R * C) |->
            LET bb == (o - 1) \div (R * C)
                r == ((o - 1) % (R * C)) \div C
                c == (o - 1) % C
                acc[k \in 0..I] ==
                    IF k = 0 THEN 0
                    ELSE acc[k - 1] + OpAt(a, trans_a, bb, r, k - 1) *
                                      OpAt(b, trans_b, bb, k - 1, c)
            IN  scale * acc[I]]

\* The tensors of the last call as matrix sequences
SeqDims == ReshapeXYOutToMatrixSequence(X.dims, Y.dims, transpose_X, transpose_Y)
XSeq == [X EXCEPT !.dims = SeqDims.x]
YSeq == [Y EXCEPT !.dims = SeqDims.y]
dOutSeq == [dOut EXCEPT !.dims = SeqDims.out]
Operand(name) == IF name = "x" THEN XSeq ELSE IF name = "y" THEN YSeq ELSE dOutSeq

\* The call of ExecuteMatMulGrad for the given target, if it has been made
Dispatched(target) == \E i \in DOMAIN dispatch : dispatch[i].target = target
DispatchOf(target) == dispatch[CHOOSE i \in DOMAIN dispatch : dispatch[i].target = target]

\* <<left operand, transposed, right operand, transposed>> of a call
ProductOf(d) == <<d.x, d.trans_x, d.y, d.trans_y>>

\* C12: the gradient kernel computes dX as the product the table names for
\* (trans_x, trans_y), with that operand order and those logical
\* transpositions: (F,F) dOut * Y^T, (F,T) dOut * Y, (T,F) Y * dOut^T,
\* (T,T) Y^T * dOut^T.
C12_DxProduct ==
    (Dispatched("dx") /\ dX.present) =>
        LET d == DispatchOf("dx")
        IN  /\ ProductOf(d) =
                 (IF ~transpose_X /\ ~transpose_Y THEN <<"dout", FALSE, "y", TRUE>>
                  ELSE IF ~transpose_X /\ transpose_Y THEN <<"dout", FALSE, "y", FALSE>>
                  ELSE IF transpose_X /\ ~transpose_Y THEN <<"y", FALSE, "dout", TRUE>>
                  ELSE <<"y", TRUE, "dout", TRUE>>)
            /\ (~d.need_combine => /\ d.x_combined = Operand(d.x)
                                   /\ d.y_combined = Operand(d.y))
            /\ grad_status = "ok" =>
                 dX.data = Product(d.x_combined, d.trans_x, d.y_combined, d.trans_y, alpha)

\* dX of a batched call with transposed X has been computed, no dimension
\* equal to another
C12_Witness ==
    /\ grad_status = "ok"
    /\ dX.present
    /\ transpose_X /\ ~transpose_Y
    /\ X.dims = <<2, 3, 1>>
    /\ Y.dims = <<2, 3, 2>>
    /\ alpha = 2

\* The forward product: Out[b] = alpha * op(X[b]) * op(Y[b]), op(X[b]) being
\* M x K and op(Y[b]) K x N, an operand without a batch of its own (or with a
\* batch of one) used for every b
FwdM == RowsOf(XSeq, transpose_X)
FwdK == ColsOf(XSeq, transpose_X)
FwdN == ColsOf(YSeq, transpose_Y)
FwdBatch == Max(BatchOf(XSeq), BatchOf(YSeq))
Slices(t, b) == IF BatchOf(t) > 1 THEN {b} ELSE 0..(FwdBatch - 1)

RECURSIVE SumOver(_, _, _)
\* sum of f[e] over the finite set S of naturals below n
SumOver(f, S, n) ==
    IF n = 0 THEN 0
    ELSE SumOver(f, S, n - 1) + (IF (n - 1) \in S THEN f[n - 1] ELSE 0)

\* The analytic gradient of X: d Out / d X applied to dOut, summed over the
\* batch slices X takes part in; in the layout of XSeq
AnalyticGradX ==
    LET R == XSeq.dims[Len(XSeq.dims) - 1]
        C == XSeq.dims[Len(XSeq.dims)]
    IN  [o \in 1..Numel(XSeq.dims) |->
            LET bx == (o - 1) \div (R * C)
                i == ((o - 1) % (R * C)) \div C
                j == (o - 1) % C
                m == IF transpose_X THEN j ELSE i
                k == IF transpose_X THEN i ELSE j
                slice == [b \in 0..(FwdBatch - 1) |->
                            SumOver([n \in 0..(FwdN - 1) |->
                                        MatAt(dOutSeq, b, m, n) *
                                        OpAt(YSeq, transpose_Y, b, k, n)],
                                    0..(FwdN - 1), FwdN)]
            IN  alpha * SumOver(slice, Slices(XSeq, bx), FwdBatch)]

\* The analytic gradient of Y, in the layout of YSeq
AnalyticGradY ==
    LET R == YSeq.dims[Len(YSeq.dims) - 1]
        C == YSeq.dims[Len(YSeq.dims)]
    IN  [o \in 1..Numel(YSeq.dims) |->
            LET by == (o - 1) \div (R * C)
                i == ((o - 1) % (R * C)) \div C
                j == (o - 1) % C
                k == IF transpose_Y THEN j ELSE i
                n == IF transpose_Y THEN i ELSE j
                slice == [b \in 0..(FwdBatch - 1) |->
                            SumOver([m \in 0..(FwdM - 1) |->
                                        MatAt(dOutSeq, b, m, n) *
                                        OpAt(XSeq, transpose_X, b, m, k)],
                                    0..(FwdM - 1), FwdM)]
            IN  alpha * SumOver(slice, Slices(YSeq, by), FwdBatch)]

\* C13 (as stated): the gradient kernel computes dY as the product the table
\* names for (trans_x, trans_y): (F,F) X^T * dOut, (F,T) X^T * dOut,
\* (T,F) X * dOut, (T,T) dOut^T * X^T.
C13_Original ==
    (Dispatched("dy") /\ dY.present) =>
        ProductOf(DispatchOf("dy")) =
            (IF ~transpose_X /\ ~transpose_Y THEN <<"x", TRUE, "dout", FALSE>>
             ELSE IF ~transpose_X /\ transpose_Y THEN <<"x", TRUE, "dout", FALSE>>
             ELSE IF transpose_X /\ ~transpose_Y THEN <<"x", FALSE, "dout", FALSE>>
             ELSE <<"dout", TRUE, "x", TRUE>>)

\* C13 (amended): the gradient kernel computes dY as (F,F) X^T * dOut,
\* (F,T) dOut^T * X, (T,F) X * dOut, (T,T) dOut^T * X^T, with that operand
\* order and those logical transpositions; where no operand is folded this
\* product is the analytic gradient of Y.
C13_DyProduct ==
    (Dispatched("dy") /\ dY.present) =>
        LET d == DispatchOf("dy")
        IN  /\ ProductOf(d) =
                 (IF ~transpose_X /\ ~transpose_Y THEN <<"x", TRUE, "dout", FALSE>>
                  ELSE IF ~transpose_X /\ transpose_Y THEN <<"dout", TRUE, "x", FALSE>>
                  ELSE IF transpose_X /\ ~transpose_Y THEN <<"x", FALSE, "dout", FALSE>>
                  ELSE <<"dout", TRUE, "x", TRUE>>)
            /\ (~d.need_combine => /\ d.x_combined = Operand(d.x)
                                   /\ d.y_combined = Operand(d.y))
            /\ grad_status = "ok" =>
                 /\ dY.data = Product(d.x_combined, d.trans_x,
                                      d.y_combined, d.trans_y, alpha)
                 /\ ~d.need_combine => dY.data = AnalyticGradY

\* dY of a batched call with transposed Y has been computed, with N # K
C13_Witness ==
    /\ grad_status = "ok"
    /\ dY.present
    /\ ~transpose_X /\ transpose_Y
    /\ X.dims = <<2, 2, 3>>
    /\ Y.dims = <<2, 1, 3>>
    /\ alpha = 2

\* C14: when only one of dX and dY is requested, the kernel dispatches no
\* matmul for the absent output and never dereferences it, and it still
\* computes and returns the requested gradient.
C14_AbsentOutputSkipped ==
    (/\ grad_status \notin {"none", "Unimplemented"}
     /\ grad_entry.dX.present # grad_entry.dY.present) =>
        /\ \A i \in DOMAIN dispatch : dispatch[i].out_present
        /\ grad_status = "ok"
        /\ dX.present => (Dispatched("dx") /\ dX.data # grad_entry.dX.data)
        /\ dY.present => (Dispatched("dy") /\ dY.data # grad_entry.dY.data)

\* C15: when the gradient kernel returns successfully, each requested
\* gradient tensor has exactly the dims it had at entry, also when it was
\* resized for the computation; the dims of the caller's X, Y and dOut are
\* never changed.
C15_ShapesRestored ==
    /\ grad_status = "ok" =>
          /\ dX.present => dX.dims = grad_entry.dX.dims
          /\ dY.present => dY.dims = grad_entry.dY.dims
    /\ grad_status # "none" =>
          /\ X = grad_entry.X
          /\ Y = grad_entry.Y
          /\ dOut = grad_entry.dOut

\* a call has returned whose dX and dY were both resized for the computation
\* (vectors X and Y computed as 1 x K and K x 1) and dOut reshaped
C15_Witness ==
    /\ grad_status = "ok"
    /\ X.dims = <<3>> /\ Y.dims = <<3>>
    /\ DispatchOf("dx").target_dims = <<1, 3>>
    /\ DispatchOf("dy").target_dims = <<3, 1>>
    /\ dX.dims = <<3>> /\ dY.dims = <<3>>
    /\ dX.data # grad_entry.dX.data

\* t folded as FoldOuterDims is documented: P x M x N to (P * M) x N on the
\* same buffer; identity if t is not of rank 3
IsOuterFoldOf(f, t) ==
    IF Len(t.dims) # 3 THEN f = t
    ELSE /\ f.dims = <<t.dims[1] * t.dims[2], t.dims[3]>>
         /\ f.data = t.data

\* t folded as FoldFirstAndLastDims is documented: P x M x N to M x (P * N)
\* with out[m][p * N + n] = in[p][m][n]; identity if t is not of rank 3
IsFirstAndLastFoldOf(f, t) ==
    IF Len(t.dims) # 3 THEN f = t
    ELSE LET P == t.dims[1]
             M == t.dims[2]
             N == t.dims[3]
         IN  /\ f.dims = <<M, P * N>>
             /\ \A p \in 0..(P - 1), m \in 0..(M - 1), n \in 0..(N - 1) :
                    f.data[m * P * N + p * N + n + 1] =
                    t.data[p * M * N + m * N + n + 1]

FoldsAsDocumented(d) ==
    /\ IF d.is_fold_init_dims_x THEN IsOuterFoldOf(d.x_combined, Operand(d.x))
       ELSE IsFirstAndLastFoldOf(d.x_combined, Operand(d.x))
    /\ IF d.is_fold_init_dims_y THEN IsOuterFoldOf(d.y_combined, Operand(d.y))
       ELSE IsFirstAndLastFoldOf(d.y_combined, Operand(d.y))

\* C16: for each (trans_x, trans_y), when exactly one of X and Y has rank 3
\* and the other rank 2, the gradient of the rank-2 operand, computed from
\* operands folded by FoldOuterDims (P x M x N to (P * M) x N, no copy) and
\* FoldFirstAndLastDims (P x M x N to M x (P * N),
\* out[m][p * N + n] = in[p][m][n], a new buffer), equals the sum over the
\* batch slices of the per-slice analytic gradient; both folds are the
\* identity on tensors whose rank is not 3.
C16_FoldedGradient ==
    /\ (grad_status = "ok" /\ Len(X.dims) = 2 /\ Len(Y.dims) = 3) =>
          /\ DispatchOf("dx").need_combine
          /\ FoldsAsDocumented(DispatchOf("dx"))
          /\ dX.data = AnalyticGradX
    /\ (grad_status = "ok" /\ Len(X.dims) = 3 /\ Len(Y.dims) = 2) =>
          /\ DispatchOf("dy").need_combine
          /\ FoldsAsDocumented(DispatchOf("dy"))
          /\ dY.data = AnalyticGradY

\* C17: in every dispatch of the gradient kernel the element count of the
\* backend's output descriptor {out_bs, M, N} equals the element count of the
\* target gradient tensor as shaped for the computation; for X and Y of rank
\* 1 to 3 with broadcast-compatible batch sizes, batch size 1 against batch
\* size B > 1 included.
C17_DescriptorMatchesTarget ==
    \A i \in DOMAIN dispatch :
        dispatch[i].out_present =>
            Numel(dispatch[i].out_dims) = Numel(dispatch[i].target_dims)

----------------------------------------------------------------------------
\* The device stream of one call of MultiTensorAdamKernel on the non-skip
\* path: the launch of CudaKernelFunctor made by multi_tensor_adam_utility,
\* then UpdateBetaPow<<<1, 32, 0, dev_ctx.stream()>>>.  A load and a store
\* are separate steps of a thread; the threads of a kernel interleave freely.

NoValue == -1

Units == 1..MaxUnits
PowThreads == 1..(IF UpdateBetaPowThreads < MaxPowThreads
                  THEN UpdateBetaPowThreads ELSE MaxPowThreads)

\* The kernels the host launches, in program order
LaunchOrderReversed(use_global_beta_pow) ==
    (IF use_global_beta_pow THEN <<>> ELSE <<"UpdateBetaPow">>) \o
    <<"CudaKernelFunctor">>
LaunchOrder(use_global_beta_pow) ==
    <<"CudaKernelFunctor">> \o
    (IF use_global_beta_pow THEN <<>> ELSE <<"UpdateBetaPow">>)

\* dev_ctx.Alloc(beta1_pow_out), dev_ctx.Alloc(beta2_pow_out): the buffer of
\* the output tensor, which is the input's buffer when the call is in place
OutBuffer(name) ==
    IF pow_alias THEN name
    ELSE IF name = "beta1_pow" THEN "beta1_pow_out" ELSE "beta2_pow_out"

\* All threads of a kernel have returned
Completed(kernel) ==
    IF kernel = "CudaKernelFunctor"
    THEN \A u \in Units : unit_pc[u] = "done"
    ELSE \A t \in PowThreads : upd_pc[t] = "done"

\* Kernels launched on one stream run in launch order: a kernel starts when
\* every kernel launched before it has completed
KernelMayRun(kernel) ==
    \E i \in DOMAIN stream :
        /\ stream[i] = kernel
        /\ \A j \in 1..(i - 1) : Completed(stream[j])

\* The host enqueues the launches and returns
LaunchKernels ==
    /\ pow_attr # <<>>
    /\ stream = <<>>
    /\ stream' = LaunchOrder(pow_attr.use_global_beta_pow)
    /\ UNCHANGED <<pow_alias, pow_attr, dev_mem, pow_entry,
                   unit_pc, unit_read, upd_pc, upd_reg>>

\* MT lr = *learning_rate; MT beta1_pow = *beta1_pow_;
UnitReadBeta1Pow(u) ==
    /\ KernelMayRun("CudaKernelFunctor")
    /\ unit_pc[u] = "beta1_pow"
    /\ unit_read' = [unit_read EXCEPT ![u].beta1_pow = dev_mem.beta1_pow]
    /\ unit_pc' = [unit_pc EXCEPT ![u] = "beta2_pow"]
    /\ UNCHANGED <<pow_alias, pow_attr, dev_mem, pow_entry, stream, upd_pc, upd_reg>>

\* MT beta2_pow = *beta2_pow_;
UnitReadBeta2Pow(u) ==
    /\ KernelMayRun("CudaKernelFunctor")
    /\ unit_pc[u] = "beta2_pow"
    /\ unit_read' = [unit_read EXCEPT ![u].beta2_pow = dev_mem.beta2_pow]
    /\ unit_pc' = [unit_pc EXCEPT ![u] = "loop"]
    /\ UNCHANGED <<pow_alias, pow_attr, dev_mem, pow_entry, stream, upd_pc, upd_reg>>

\* The rest of the functor: the element updates, computed from the values
\* read; no access to the beta_pow buffers
UnitElementUpdates(u) ==
    /\ KernelMayRun("CudaKernelFunctor")
    /\ unit_pc[u] = "loop"
    /\ unit_pc' = [unit_pc EXCEPT ![u] = "done"]
    /\ UNCHANGED <<pow_alias, pow_attr, dev_mem, pow_entry, stream,
                   unit_read, upd_pc, upd_reg>>

\* the load of beta1_pow_[0] / beta2_pow_[0]
UpdLoad(t, at, name, next) ==
    /\ KernelMayRun("UpdateBetaPow")
    /\ upd_pc[t] = at
    /\ upd_reg' = [upd_reg EXCEPT ![t] = dev_mem[name]]
    /\ upd_pc' = [upd_pc EXCEPT ![t] = next]
    /\ UNCHANGED <<pow_alias, pow_attr, dev_mem, pow_entry, stream, unit_pc, unit_read>>

\* the store *beta1_pow_out = beta1 * ... / *beta2_pow_out = beta2 * ...
UpdStore(t, at, name, beta, next) ==
    /\ KernelMayRun("UpdateBetaPow")
    /\ upd_pc[t] = at
    /\ dev_mem' = [dev_mem EXCEPT ![OutBuffer(name)] = FMul(beta, upd_reg[t])]
    /\ upd_pc' = [upd_pc EXCEPT ![t] = next]
    /\ UNCHANGED <<pow_alias, pow_attr, pow_entry, stream, unit_pc, unit_read, upd_reg>>

\* *beta1_pow_out = beta1 * beta1_pow_[0];
UpdLoadBeta1Pow(t) == UpdLoad(t, "load1", "beta1_pow", "store1")
UpdStoreBeta1PowOut(t) == UpdStore(t, "store1", "beta1_pow", pow_attr.beta1, "load2")
\* *beta2_pow_out = beta2 * beta2_pow_[0];
UpdLoadBeta2Pow(t) == UpdLoad(t, "load2", "beta2_pow", "store2")
UpdStoreBeta2PowOut(t) == UpdStore(t, "store2", "beta2_pow", pow_attr.beta2, "done")

InitStream ==
    /\ AdamIdle
    /\ DevIdle
    /\ MatMulIdle
    /\ GradIdle
    /\ FuseIdle
    /\ pow_alias \in BOOLEAN
    /\ pow_attr \in [beta1 : {Unit \div 2},
                     beta2 : {(3 * Unit) \div 4},
                     use_global_beta_pow : BOOLEAN]
    /\ dev_mem \in [beta1_pow : {Unit \div 2, Unit},
                    beta2_pow : {(3 * Unit) \div 4, Unit},
                    beta1_pow_out : {0},
                    beta2_pow_out : {0}]
    /\ pow_entry = dev_mem
    /\ stream = <<>>
    /\ unit_pc = [u \in Units |-> "beta1_pow"]
    /\ unit_read = [u \in Units |-> [beta1_pow |-> NoValue, beta2_pow |-> NoValue]]
    /\ upd_pc = [t \in PowThreads |-> "load1"]
    /\ upd_reg = [t \in PowThreads |-> NoValue]

otherThanStream == <<adamVars, devVars, mmVars, gradVars, fuseVars>>

HostLaunch == LaunchKernels /\ UNCHANGED otherThanStream
ReadBeta1Pow == \E u \in Units : UnitReadBeta1Pow(u) /\ UNCHANGED otherThanStream
ReadBeta2Pow == \E u \in Units : UnitReadBeta2Pow(u) /\ UNCHANGED otherThanStream
ElementUpdates == \E u \in Units : UnitElementUpdates(u) /\ UNCHANGED otherThanStream
LoadBeta1Pow == \E t \in PowThreads : UpdLoadBeta1Pow(t) /\ UNCHANGED otherThanStream
StoreBeta1PowOut == \E t \in PowThreads : UpdStoreBeta1PowOut(t) /\ UNCHANGED otherThanStream
LoadBeta2Pow == \E t \in PowThreads : UpdLoadBeta2Pow(t) /\ UNCHANGED otherThanStream
StoreBeta2PowOut == \E t \in PowThreads : UpdStoreBeta2PowOut(t) /\ UNCHANGED otherThanStream

NextStream ==
    \/ HostLaunch
    \/ ReadBeta1Pow \/ ReadBeta2Pow \/ ElementUpdates
    \/ LoadBeta1Pow \/ StoreBeta1PowOut \/ LoadBeta2Pow \/ StoreBeta2PowOut

SpecStream == InitStream /\ [][NextStream]_vars

----------------------------------------------------------------------------
\* Properties of the device stream (SpecStream)

UnitsReadEntry ==
    \A u \in Units :
        /\ unit_read[u].beta1_pow \in {NoValue, pow_entry.beta1_pow}
        /\ unit_read[u].beta2_pow \in {NoValue, pow_entry.beta2_pow}

PowOutWritten == \E t \in PowThreads : upd_pc[t] \notin {"load1", "store1"}

\* C18: on the non-skip path with use_global_beta_pow false, every
\* element-update work-unit reads beta1_pow and beta2_pow as they were at
\* kernel entry, also when beta1_pow_out / beta2_pow_out alias the inputs:
\* beta_pow_out is written only after all work-units have completed.
C18_UnitsReadEntryBetaPow ==
    (pow_attr # <<>> /\ ~pow_attr.use_global_beta_pow) =>
        /\ UnitsReadEntry
        /\ PowOutWritten => Completed("CudaKernelFunctor")

C18_Witness ==
    /\ pow_attr # <<>> /\ ~pow_attr.use_global_beta_pow
    /\ pow_alias
    /\ PowOutWritten
    /\ dev_mem.beta1_pow # pow_entry.beta1_pow
    /\ \A u \in Units : unit_read[u].beta1_pow = pow_entry.beta1_pow
                        /\ unit_read[u].beta2_pow = pow_entry.beta2_pow

\* C19: UpdateBetaPow runs with 32 threads that each read the input
\* accumulators and write the outputs; under every interleaving of their
\* reads and writes the final beta1_pow_out is beta1 * (beta1_pow at entry)
\* and beta2_pow_out is beta2 * (beta2_pow at entry), also when the output
\* buffer is the input accumulator's buffer.
C19_FinalizationAtomicInEffect ==
    (pow_attr # <<>> /\ ~pow_attr.use_global_beta_pow
        /\ stream # <<>> /\ Completed("UpdateBetaPow")) =>
        /\ dev_mem[OutBuffer("beta1_pow")] = FMul(pow_attr.beta1, pow_entry.beta1_pow)
        /\ dev_mem[OutBuffer("beta2_pow")] = FMul(pow_attr.beta2, pow_entry.beta2_pow)

----------------------------------------------------------------------------
\* MatMulV2MKLDNNKernel::Compute (forward) with the attributes
\* fused_reshape_X/Y and fused_transpose_X/Y.  Axis values count from 0 as in
\* the source; sequences count from 1.

InputNames == {"X", "Y"}

\* DDim::reshape: an entry 0 of shape takes the input's dim at its position
Reshape(dims, shape) ==
    [i \in 1..Len(shape) |-> IF shape[i] = 0 THEN dims[i] ELSE shape[i]]

\* DDim::transpose: dim i of the result is dim axis[i] of the input
TransposeDims(dims, axis) == [i \in 1..Len(axis) |-> dims[axis[i] + 1]]

GetDimForInput(input_dims, shape, axis) ==
    IF shape # <<>> /\ axis # <<>>
    THEN TransposeDims(Reshape(input_dims, shape), axis)
    ELSE input_dims

\* Transpose(x, axis): the three PADDLE_ENFORCE checks, then new_x[i] = x[axis[i]]
Transpose(x, axis) ==
    IF Cardinality({axis[i] : i \in DOMAIN axis}) # Len(axis)
    THEN [err |-> TRUE, data |-> <<>>]
    ELSE IF Len(x) # Len(axis)
    THEN [err |-> TRUE, data |-> <<>>]
    ELSE IF ~(\A i \in DOMAIN axis : axis[i] < Len(axis))
    THEN [err |-> TRUE, data |-> <<>>]
    ELSE [err |-> FALSE, data |-> [i \in 1..Len(x) |-> x[axis[i] + 1]]]

\* strides.push_back(1); for (i = shape2.size() - 1; i > 0; --i)
\*   strides.insert(strides.begin(), strides.front() * shape2[i]);
RECURSIVE RowMajorStrides(_)
RowMajorStrides(shape2) ==
    IF Len(shape2) <= 1 THEN <<1>>
    ELSE LET rest == RowMajorStrides(Tail(shape2))
         IN  <<rest[1] * shape2[2]>> \o rest

\* std::swap(*strides.rbegin(), *(++strides.rbegin()))
SwapLastTwo(sq) ==
    LET n == Len(sq)
    IN  [i \in 1..n |-> IF i = n THEN sq[n - 1] ELSE IF i = n - 1 THEN sq[n] ELSE sq[i]]

\* GetInputStrides: [err, data]; data = <<>> is no override
GetInputStrides(input_dims, shape, axis, trans_input) ==
    IF shape # <<>>
    THEN LET t == Transpose(RowMajorStrides(Reshape(input_dims, shape)), axis)
             s == IF Len(shape) = 2 THEN <<shape[1] * shape[2]>> \o t.data ELSE t.data
         IN  IF t.err THEN [err |-> TRUE, data |-> <<>>]
             ELSE [err |-> FALSE, data |-> IF trans_input THEN SwapLastTwo(s) ELSE s]
    ELSE [err |-> FALSE, data |-> <<>>]

NotResolved == [status |-> "none", data |-> <<>>]

FusedCompute ==
    /\ mm_status = "none"
    /\ in_dims # <<>>
    /\ out_entry' = out_dims
    /\ UNCHANGED <<fused_reshape_Out, fused_transpose_Out, head_number,
                   in_dims, fused_reshape, fused_transpose, trans_attr>>
    /\ IF head_number # NoAttr /\ head_number # 1
       THEN /\ mm_status' = "Unimplemented"
            /\ UNCHANGED <<x_dims, y_dims, out_dims, x_bd_dims, y_bd_dims,
                           executed, strides_override>>
       ELSE LET xd == GetDimForInput(in_dims["X"], fused_reshape["X"], fused_transpose["X"])
                yd == GetDimForInput(in_dims["Y"], fused_reshape["Y"], fused_transpose["Y"])
                nd == NDims(xd, yd)
                xbd == XBdDims(xd, nd)
                ybd == YBdDims(yd, nd)
                r == CalculateMatrixDims(xd, yd, xbd, ybd, out_dims)
                sx == GetInputStrides(in_dims["X"], fused_reshape["X"],
                                      fused_transpose["X"], trans_attr["X"])
                sy == GetInputStrides(in_dims["Y"], fused_reshape["Y"],
                                      fused_transpose["Y"], trans_attr["Y"])
            IN  /\ x_dims' = xd
                /\ y_dims' = yd
                /\ x_bd_dims' = xbd
                /\ y_bd_dims' = ybd
                /\ out_dims' = r.out
                /\ IF r.err
                   THEN /\ mm_status' = "InvalidArgument"
                        /\ executed' = FALSE
                        /\ UNCHANGED strides_override
                   ELSE IF sx.err
                   THEN /\ mm_status' = "InvalidArgument"
                        /\ executed' = FALSE
                        /\ strides_override' =
                               [strides_override EXCEPT
                                   !["X"] = [status |-> "InvalidArgument", data |-> <<>>]]
                   ELSE IF sy.err
                   THEN /\ mm_status' = "InvalidArgument"
                        /\ executed' = FALSE
                        /\ strides_override' =
                               [strides_override EXCEPT
                                   !["X"] = [status |-> "ok", data |-> sx.data],
                                   !["Y"] = [status |-> "InvalidArgument", data |-> <<>>]]
                   ELSE /\ strides_override' =
                               [strides_override EXCEPT
                                   !["X"] = [status |-> "ok", data |-> sx.data],
                                   !["Y"] = [status |-> "ok", data |-> sy.data]]
                        /\ \E res \in ExecuteMatMulV2(xbd, ybd) :
                               /\ mm_status' = res
                               /\ executed' = (res = "ok")

\* Values of fused_reshape_<input> and fused_transpose_<input>
FusedReshapes == {<<>>, <<2, 3>>, <<3, 2>>, <<2, 3, 2>>, <<2, 2, 3>>, <<3, 2, 2>>}
FusedTransposes == {<<>>, <<0, 1>>, <<1, 0>>, <<0, 1, 2>>, <<0, 2, 1>>, <<1, 0, 2>>}

\* The attributes of one input the operator can be built with: the reshape
\* keeps the element count, and a transpose applied to it has its rank
FusedAttrsOk(input_dims, shape, axis) ==
    /\ shape # <<>> => Numel(Reshape(input_dims, shape)) = Numel(input_dims)
    /\ (shape # <<>> /\ axis # <<>>) => Len(axis) = Len(shape)

\* dims as the multiply sees them: [.., M, K] for X, [.., K, N] for Y
AsMultiplied(dims, trans_input) == IF trans_input THEN SwapLastTwo(dims) ELSE dims

InitFused ==
    /\ AdamIdle
    /\ DevIdle
    /\ GradIdle
    /\ BetaIdle
    /\ in_dims \in [InputNames -> {<<2, 3>>, <<3, 2>>, <<2, 2, 3>>, <<2, 3, 2>>}]
    /\ fused_reshape \in [InputNames -> FusedReshapes]
    /\ fused_transpose \in [InputNames -> FusedTransposes]
    /\ trans_attr \in [InputNames -> BOOLEAN]
    /\ \A n \in InputNames : FusedAttrsOk(in_dims[n], fused_reshape[n], fused_transpose[n])
    /\ LET xm == AsMultiplied(GetDimForInput(in_dims["X"], fused_reshape["X"],
                                             fused_transpose["X"]), trans_attr["X"])
           ym == AsMultiplied(GetDimForInput(in_dims["Y"], fused_reshape["Y"],
                                             fused_transpose["Y"]), trans_attr["Y"])
       IN  /\ xm[Len(xm)] = ym[Len(ym) - 1]
           /\ out_dims \in DeclaredOutDims(xm, ym)
    /\ strides_override = [n \in InputNames |-> NotResolved]
    /\ x_dims = <<>> /\ y_dims = <<>>
    /\ fused_reshape_Out = <<>> /\ fused_transpose_Out = <<>>
    /\ head_number \in {NoAttr, 1, 2}
    /\ out_entry = out_dims
    /\ x_bd_dims = <<>>
    /\ y_bd_dims = <<>>
    /\ mm_status = "none"
    /\ executed = FALSE

NextFused == FusedCompute /\ UNCHANGED <<adamVars, devVars, gradVars, betaVars>>

SpecFused == InitFused /\ [][NextFused]_vars

----------------------------------------------------------------------------
\* Properties of the forward matmul with fused inputs (SpecFused)

FusedInEffect(n) == fused_reshape[n] # <<>> /\ fused_transpose[n] # <<>>

EffectiveDims(n) == IF n = "X" THEN x_dims ELSE y_dims

\* C20: for each forward input, GetDimForInput and GetInputStrides agree on
\* whether the fused reshape/transpose is in effect: the effective shape is
\* reshape-then-permute and the strides are overridden exactly when both
\* fused_reshape_<input> and fused_transpose_<input> are non-empty; when
\* either list is empty the call uses the raw shape, overrides no strides and
\* raises no error.
C20_ShapeAndStridesAgree ==
    (in_dims # <<>> /\ mm_status \notin {"none", "Unimplemented"}) =>
        \A n \in InputNames :
            /\ FusedInEffect(n) =>
                  /\ EffectiveDims(n) =
                         TransposeDims(Reshape(in_dims[n], fused_reshape[n]),
                                       fused_transpose[n])
                  /\ strides_override[n].status = "ok" =>
                         strides_override[n].data # <<>>
            /\ ~FusedInEffect(n) =>
                  /\ EffectiveDims(n) = in_dims[n]
                  /\ strides_override[n].status # "InvalidArgument"
                  /\ strides_override[n].data = <<>>

====
